---- MODULE Spec2Model ----
(***************************************************************************)
(* Model of official/bert/optimization.py: the WarmUp learning-rate        *)
(* schedule, create_optimizer, and the AdamWeightDecay optimizer           *)
(* (apply_gradients, _resource_apply_dense, _resource_apply_sparse,        *)
(* get_config / from_config, _do_use_weight_decay).                        *)
(*                                                                         *)
(* Numbers.  A rate is an exact rational <<n, d>> with d > 0, kept in      *)
(* lowest terms; <<1, 0>>, <<-1, 0>> and <<0, 0>> stand for +inf, -inf and *)
(* nan, the results the float division of line 49 gives for a zero         *)
(* divisor.  Step counts are integers; tf.cast(., tf.float32) is modelled  *)
(* with its 24-bit significand.  Tensor values of the update rule are      *)
(* fixed-point integers in units of 1/Unit.                                *)
(***************************************************************************)
EXTENDS Integers, Sequences, FiniteSets, TLC

VARIABLES
  optimizer,   \* the optimizer object under study (None before construction)
  via,         \* how it was built: "none", "create_optimizer", "direct"
  args,        \* the arguments create_optimizer was called with
  step,        \* argument of the last schedule call
  lr,          \* result of the last schedule call
  divzero,     \* the last schedule call divided by a float zero (line 49)
  config,      \* result of the last get_config()
  restored,    \* result of the last from_config()
  query,       \* <<object, param_name, answer>> of the last _do_use_weight_decay
  varnames,    \* names of the model's variables, by position
  param, m, v, \* per-variable value and Adam slots, indexed by position
  iterations,  \* the base class's step counter
  before,      \* <<param, m, v>> when apply_gradients was entered
  pc,          \* position inside apply_gradients
  grads,       \* gradient list of the running apply_gradients call
  nread,       \* gradients the global-norm reduction has read so far
  sumsq,       \* running sum of squares of the reduction
  clipped,     \* result of tf.clip_by_global_norm
  handed,      \* the list handed to the base class's apply_gradients
  idx,         \* next pair the base class dispatches
  received,    \* the calls of the per-variable update methods so far
  written,     \* per variable, which of param / m / v have been assigned
  error        \* the exception that ended the call, or "none"

vars == <<optimizer, via, args, step, lr, divzero, config, restored, query,
          varnames, param, m, v, iterations, before, pc, grads, nread,
          sumsq, clipped, handed, idx, received, written, error>>

schedVars == <<step, lr, divzero>>
configVars == <<config, restored, query>>
applyVars == <<varnames, param, m, v, iterations, before, pc, grads, nread,
               sumsq, clipped, handed, idx, received, written, error>>

None == [cls |-> "None"]

-----------------------------------------------------------------------------
(* Bounds of the model *)

\* schedule steps 0..MaxStep are tried, next to the steps around 2^24
MaxStep == 4
\* warmup lengths -1..MaxWarmup are tried, next to 2^24 + 1
MaxWarmup == 3
\* gradient lists have up to MaxVars entries
MaxVars == 2
\* gradient components range over -MaxGrad..MaxGrad, in steps of one half
MaxGrad == 3

-----------------------------------------------------------------------------
(* Exact rationals *)

Abs(x) == IF x < 0 THEN -x ELSE x

RECURSIVE GCD(_, _)
GCD(a, b) == IF b = 0 THEN a ELSE GCD(b, a % b)

Inf == <<1, 0>>
NaN == <<0, 0>>

Rat(n, d) ==
  IF d = 0 THEN (IF n = 0 THEN NaN ELSE IF n > 0 THEN Inf ELSE <<-1, 0>>)
  ELSE IF n = 0 THEN <<0, 1>>
  ELSE LET g == GCD(Abs(n), Abs(d))
           s == IF d < 0 THEN -1 ELSE 1
       IN <<(s * n) \div g, (s * d) \div g>>

RatMul(a, b) == Rat(a[1] * b[1], a[2] * b[2])
RatSub(a, b) == Rat(a[1] * b[2] - b[1] * a[2], a[2] * b[2])
\* tf.math.pow with a positive integral exponent
RatPow(a, p) == Rat(a[1] ^ p, a[2] ^ p)

-----------------------------------------------------------------------------
(* tf.cast(n, tf.float32) of an integer: 24 significant bits, round to     *)
(* nearest, ties to even.                                                  *)

MantissaBits == 24

Float32Abs(n) ==
  IF n < 2 ^ MantissaBits THEN n
  ELSE LET e == CHOOSE k \in MantissaBits..29 : 2 ^ k <= n /\ n < 2 ^ (k + 1)
           ulp == 2 ^ (e - MantissaBits + 1)
           lo == (n \div ulp) * ulp
           r == n - lo
       IN IF 2 * r < ulp THEN lo
          ELSE IF 2 * r > ulp THEN lo + ulp
          ELSE IF (lo \div ulp) % 2 = 0 THEN lo ELSE lo + ulp

Float32(n) == IF n < 0 THEN -Float32Abs(-n) ELSE Float32Abs(n)


-----------------------------------------------------------------------------
(* Strings are tuples of characters, so that patterns can be searched.     *)

Str_bias == <<"b", "i", "a", "s">>
Str_layer_norm == <<"l", "a", "y", "e", "r", "_", "n", "o", "r", "m">>

-----------------------------------------------------------------------------
(* Learning-rate schedules.  A schedule object is a record tagged by cls.  *)

\* a plain float learning rate (the constructor's default, line 102)
Constant(value) == [cls |-> "Constant", value |-> value]

\* tf.keras.optimizers.schedules.PolynomialDecay as constructed on lines
\* 71-74 (power and cycle keep the library defaults 1.0 and False)
PolynomialDecay(initial_learning_rate, decay_steps, end_learning_rate) ==
  [cls |-> "PolynomialDecay",
   initial_learning_rate |-> initial_learning_rate,
   decay_steps |-> decay_steps,
   end_learning_rate |-> end_learning_rate,
   power |-> 1]

\* (initial - end) * (1 - min(step, decay_steps) / decay_steps) ^ power + end
PolynomialDecay_call(self, s) ==
  LET capped == IF s < self.decay_steps THEN s ELSE self.decay_steps
      left == RatPow(Rat(self.decay_steps - capped, self.decay_steps),
                     self.power)
      span == RatSub(self.initial_learning_rate, self.end_learning_rate)
      scaled == RatMul(span, left)
  IN Rat(scaled[1] * self.end_learning_rate[2]
           + self.end_learning_rate[1] * scaled[2],
         scaled[2] * self.end_learning_rate[2])

\* WarmUp.__init__
WarmUp(initial_learning_rate, decay_schedule_fn, warmup_steps, power, name) ==
  [cls |-> "WarmUp",
   initial_learning_rate |-> initial_learning_rate,
   warmup_steps |-> warmup_steps,
   power |-> power,
   decay_schedule_fn |-> decay_schedule_fn,
   name |-> name]

RECURSIVE Schedule_call(_, _)

\* WarmUp.__call__: both steps are cast to float32 before they are divided
\* and compared; the result carries whether line 49 divided by zero
WarmUp_call(self, s) ==
  LET global_step_float == Float32(s)
      warmup_steps_float == Float32(self.warmup_steps)
      warmup_percent_done == Rat(global_step_float, warmup_steps_float)
      warmup_learning_rate ==
        RatMul(self.initial_learning_rate,
               RatPow(warmup_percent_done, self.power))
      inner == Schedule_call(self.decay_schedule_fn, s)
  IN [value |-> IF global_step_float < warmup_steps_float
                THEN warmup_learning_rate
                ELSE inner.value,
      divzero |-> warmup_steps_float = 0 \/ inner.divzero]

\* calling whatever object serves as the optimizer's learning rate
Schedule_call(self, s) ==
  IF self.cls = "WarmUp" THEN WarmUp_call(self, s)
  ELSE IF self.cls = "PolynomialDecay"
       THEN [value |-> PolynomialDecay_call(self, s), divzero |-> FALSE]
       ELSE [value |-> self.value, divzero |-> FALSE]

-----------------------------------------------------------------------------
(* The optimizer object *)

NoList == [is_none |-> TRUE, list |-> <<>>]
List(l) == [is_none |-> FALSE, list |-> l]

\* AdamWeightDecay.__init__
AdamWeightDecay(learning_rate, beta_1, beta_2, epsilon, amsgrad, weight_decay_rate, exclude_from_weight_decay, name) ==
  [cls |-> "AdamWeightDecay",
   name |-> name,
   learning_rate |-> learning_rate,
   amsgrad |-> amsgrad,
   exclude_from_weight_decay |-> exclude_from_weight_decay,
   beta_1 |-> beta_1,
   beta_2 |-> beta_2,
   weight_decay_rate |-> weight_decay_rate,
   epsilon |-> epsilon]

\* the constructor's defaults (lines 102-109)
DefaultLearningRate == Constant(<<1, 1000>>)
DefaultBeta1 == <<9, 10>>
DefaultBeta2 == <<999, 1000>>
DefaultEpsilon == <<1, 10000000>>
DefaultWeightDecayRate == <<0, 1>>
DefaultName == "AdamWeightDecay"

\* create_optimizer with the test of line 75 dropped: the schedule is
\* wrapped whatever the warmup length
create_optimizer_always_wraps(init_lr, num_train_steps, num_warmup_steps) ==
  LET decay == PolynomialDecay(init_lr, num_train_steps, <<0, 1>>)
  IN AdamWeightDecay(WarmUp(init_lr, decay, num_warmup_steps, 1, "None"),
                     <<9, 10>>, <<999, 1000>>, <<1, 1000000>>, FALSE,
                     <<1, 100>>, List(<<Str_layer_norm, Str_bias>>),
                     DefaultName)

\* the body of create_optimizer: the schedule, wrapped when the warmup
\* length is truthy, inside an optimizer with the fixed hyperparameters
create_optimizer(init_lr, num_train_steps, num_warmup_steps) ==
  LET decay == PolynomialDecay(init_lr, num_train_steps, <<0, 1>>)
      learning_rate_fn ==
        IF num_warmup_steps # 0
        THEN WarmUp(init_lr, decay, num_warmup_steps, 1, "None")
        ELSE decay
  IN AdamWeightDecay(learning_rate_fn, <<9, 10>>, <<999, 1000>>,
                     <<1, 1000000>>, FALSE, <<1, 100>>,
                     List(<<Str_layer_norm, Str_bias>>), DefaultName)


-----------------------------------------------------------------------------
(* re.search on the part of the pattern syntax the model uses: literal     *)
(* characters, "." for any character, a leading "^" and a trailing "$".    *)

RECURSIVE MatchHere(_, _)
MatchHere(re, text) ==
  IF re = <<>> THEN TRUE
  ELSE IF re = <<"$">> THEN text = <<>>
  ELSE IF text # <<>> /\ (re[1] = "." \/ re[1] = text[1])
       THEN MatchHere(Tail(re), Tail(text))
       ELSE FALSE

\* re.match in place of re.search: the pattern is tried at the start only
re_match(r, param_name) ==
  MatchHere(IF r # <<>> /\ r[1] = "^" THEN Tail(r) ELSE r, param_name)

\* re.search(r, param_name) is not None
re_search(r, param_name) ==
  IF r # <<>> /\ r[1] = "^"
  THEN MatchHere(Tail(r), param_name)
  ELSE \E i \in 1..(Len(param_name) + 1) :
         MatchHere(r, SubSeq(param_name, i, Len(param_name)))

\* AdamWeightDecay._do_use_weight_decay
_do_use_weight_decay(self, param_name) ==
  IF self.weight_decay_rate[1] = 0 THEN FALSE
  ELSE IF self.exclude_from_weight_decay.list # <<>>
          /\ \E k \in 1..Len(self.exclude_from_weight_decay.list) :
               re_search(self.exclude_from_weight_decay.list[k], param_name)
       THEN FALSE
       ELSE TRUE

-----------------------------------------------------------------------------
(* Configuration export and import *)

\* WarmUp.get_config: the nested schedule is returned as the object itself
WarmUp_get_config(self) ==
  [initial_learning_rate |-> self.initial_learning_rate,
   decay_schedule_fn |-> self.decay_schedule_fn,
   warmup_steps |-> self.warmup_steps,
   power |-> self.power,
   name |-> self.name]

\* the base class's _serialize_hyperparameter('learning_rate'): a schedule
\* becomes {class_name, config}, a float stays a float
serialize_learning_rate(learning_rate) ==
  IF learning_rate.cls = "WarmUp"
  THEN [class_name |-> "WarmUp", config |-> WarmUp_get_config(learning_rate)]
  ELSE IF learning_rate.cls = "PolynomialDecay"
       THEN [class_name |-> "PolynomialDecay",
             config |-> [initial_learning_rate |-> learning_rate.initial_learning_rate,
                         decay_steps |-> learning_rate.decay_steps,
                         end_learning_rate |-> learning_rate.end_learning_rate,
                         power |-> learning_rate.power]]
       ELSE [class_name |-> "float", config |-> [value |-> learning_rate.value]]

\* super(AdamWeightDecay, self).get_config(): Adam's own configuration
Adam_get_config(self) ==
  [name |-> self.name,
   learning_rate |-> serialize_learning_rate(self.learning_rate),
   beta_1 |-> self.beta_1,
   beta_2 |-> self.beta_2,
   epsilon |-> self.epsilon,
   amsgrad |-> self.amsgrad]

\* config.update({...}): right-hand entries override
Update(cfg, more) ==
  [k \in DOMAIN cfg \cup DOMAIN more |->
     IF k \in DOMAIN more THEN more[k] ELSE cfg[k]]

\* get_config without the config.update of lines 164-167
get_config_base_only(self) == Adam_get_config(self)

\* AdamWeightDecay.get_config
get_config(self) ==
  Update(Adam_get_config(self),
         [weight_decay_rate |-> self.weight_decay_rate])

ValueError == [cls |-> "ValueError"]

\* learning_rate_schedule.deserialize: the class is looked up among the
\* library's own schedules and the custom objects passed in
deserialize_learning_rate(ser, custom_objects) ==
  IF ser.class_name = "float" THEN Constant(ser.config.value)
  ELSE IF ser.class_name = "PolynomialDecay"
       THEN [cls |-> "PolynomialDecay",
             initial_learning_rate |-> ser.config.initial_learning_rate,
             decay_steps |-> ser.config.decay_steps,
             end_learning_rate |-> ser.config.end_learning_rate,
             power |-> ser.config.power]
  ELSE IF ser.class_name \in custom_objects /\ ser.class_name = "WarmUp"
       THEN WarmUp(ser.config.initial_learning_rate,
                   ser.config.decay_schedule_fn,
                   ser.config.warmup_steps,
                   ser.config.power,
                   ser.config.name)
       ELSE ValueError

\* a keyword argument of cls(**config), or the constructor's default
Kw(cfg, key, default) == IF key \in DOMAIN cfg THEN cfg[key] ELSE default

\* the base class's from_config: deserialize the learning rate, then
\* cls(**config)
Adam_from_config(cfg, custom_objects) ==
  LET learning_rate ==
        IF "learning_rate" \in DOMAIN cfg
        THEN deserialize_learning_rate(cfg.learning_rate, custom_objects)
        ELSE DefaultLearningRate
  IN IF learning_rate = ValueError THEN ValueError
     ELSE AdamWeightDecay(learning_rate,
                          Kw(cfg, "beta_1", DefaultBeta1),
                          Kw(cfg, "beta_2", DefaultBeta2),
                          Kw(cfg, "epsilon", DefaultEpsilon),
                          Kw(cfg, "amsgrad", FALSE),
                          Kw(cfg, "weight_decay_rate", DefaultWeightDecayRate),
                          Kw(cfg, "exclude_from_weight_decay", NoList),
                          Kw(cfg, "name", DefaultName))

\* AdamWeightDecay.from_config
from_config(cfg) == Adam_from_config(cfg, {"WarmUp"})


-----------------------------------------------------------------------------
(* Inputs tried *)

\* 2^24: the first integer whose successor float32 cannot represent
Wide == 2 ^ MantissaBits

InitRates == {<<1, 1>>, <<1, 10>>}
TrainSteps == {MaxStep - 1, Wide + 2}
WarmupSteps == (-1..MaxWarmup) \cup {Wide + 1}
Steps == (0..MaxStep) \cup {Wide - 1, Wide, Wide + 1, Wide + 2}

\* WarmUp objects a caller builds directly (any length, also zero)
DirectWarmUps ==
  {WarmUp(i, PolynomialDecay(i, MaxStep - 1, <<0, 1>>), w, p, "None") :
     i \in InitRates, w \in 0..MaxWarmup, p \in {1, 2}}

ExcludeLists ==
  {NoList, List(<<>>), List(<<Str_layer_norm, Str_bias>>),
   List(<<<<"^", "b", "i", "a", "s", "$">>>>), List(<<<<"b", ".", "a", "s">>>>)}

WeightDecayRates == {<<0, 1>>, <<1, 100>>}

ParamNames ==
  {<<"b", "i", "a", "s">>,
   <<"k", "e", "r", "n", "e", "l">>,
   <<"l", "a", "y", "e", "r", "_", "n", "o", "r", "m">>,
   <<"a", "/", "b", "i", "a", "s">>,
   <<"b", "i", "a">>,
   <<"b", "i", "a", "s", "e", "s">>,
   <<"l", "a", "y", "e", "r", "_", "n", "o", "r">>,
   <<"x", "/", "l", "a", "y", "e", "r", "_", "n", "o", "r", "m", "/", "g">>,
   <<"B", "i", "a", "s">>,
   <<"b", "1", "a", "s">>,
   <<>>}

-----------------------------------------------------------------------------
(* Specifications SpecSchedule and SpecConfig: one optimizer is built;     *)
(* then its learning-rate schedule is called (SpecSchedule), or its        *)
(* configuration is exported and imported and it is asked whether a        *)
(* parameter is decayed (SpecConfig).  The apply_gradients variables stay  *)
(* idle.                                                                   *)

NoQuery == [on |-> "none", param_name |-> <<>>, answer |-> FALSE]

ApplyIdle ==
  /\ varnames = <<>> /\ param = <<>> /\ m = <<>> /\ v = <<>>
  /\ iterations = 0 /\ before = <<>>
  /\ pc = "idle" /\ grads = <<>> /\ nread = 0 /\ sumsq = 0
  /\ clipped = <<>> /\ handed = <<>> /\ idx = 0
  /\ received = <<>> /\ written = <<>> /\ error = "none"

Fresh ==
  /\ step' = -1 /\ lr' = <<0, 1>> /\ divzero' = FALSE
  /\ config' = None /\ restored' = None /\ query' = NoQuery

Init ==
  /\ optimizer = None /\ via = "none" /\ args = <<>>
  /\ step = -1 /\ lr = <<0, 1>> /\ divzero = FALSE
  /\ config = None /\ restored = None /\ query = NoQuery
  /\ ApplyIdle

\* a call of create_optimizer(init_lr, num_train_steps, num_warmup_steps)
Create(init_lr, num_train_steps, num_warmup_steps) ==
  /\ via = "none"
  /\ optimizer' = create_optimizer(init_lr, num_train_steps, num_warmup_steps)
  /\ via' = "create_optimizer"
  /\ args' = <<init_lr, num_train_steps, num_warmup_steps>>
  /\ Fresh
  /\ UNCHANGED applyVars

\* a direct call of the constructor AdamWeightDecay(...)
Construct(learning_rate, weight_decay_rate, exclude) ==
  /\ via = "none"
  /\ optimizer' = AdamWeightDecay(learning_rate, DefaultBeta1, DefaultBeta2, DefaultEpsilon, FALSE, weight_decay_rate, exclude, DefaultName)
  /\ via' = "direct"
  /\ args' = <<>>
  /\ Fresh
  /\ UNCHANGED applyVars

\* the optimizer's learning rate evaluated at step s
CallSchedule(s) ==
  /\ via # "none"
  /\ LET r == Schedule_call(optimizer.learning_rate, s)
     IN /\ step' = s
        /\ lr' = r.value
        /\ divzero' = r.divzero
  /\ UNCHANGED <<optimizer, via, args, configVars, applyVars>>

\* optimizer.get_config()
GetConfig ==
  /\ via # "none"
  /\ config' = get_config(optimizer)
  /\ UNCHANGED <<optimizer, via, args, restored, query, schedVars, applyVars>>

\* AdamWeightDecay.from_config(config)
FromConfig ==
  /\ config # None
  /\ restored' = from_config(config)
  /\ UNCHANGED <<optimizer, via, args, config, query, schedVars, applyVars>>

\* who._do_use_weight_decay(name), on the optimizer or its reconstruction
AskDecay(who, name) ==
  /\ \/ who = "optimizer" /\ via # "none"
     \/ who = "restored" /\ restored # None /\ restored # ValueError
  /\ LET self == IF who = "optimizer" THEN optimizer ELSE restored
     IN query' = [on |-> who, param_name |-> name,
                  answer |-> _do_use_weight_decay(self, name)]
  /\ UNCHANGED <<optimizer, via, args, config, restored, schedVars, applyVars>>

Build ==
  \/ \E i \in InitRates, n \in TrainSteps, w \in WarmupSteps : Create(i, n, w)
  \/ \E l \in DirectWarmUps \cup {DefaultLearningRate},
        r \in WeightDecayRates, e \in ExcludeLists : Construct(l, r, e)

NextSchedule ==
  \/ Build
  \/ \E s \in Steps : CallSchedule(s)

SpecSchedule == Init /\ [][NextSchedule]_vars

NextConfig ==
  \/ Build
  \/ GetConfig
  \/ FromConfig
  \/ \E who \in {"optimizer", "restored"}, name \in ParamNames : AskDecay(who, name)

SpecConfig == Init /\ [][NextConfig]_vars


-----------------------------------------------------------------------------
(* Claims about the schedule (SpecSchedule) *)

Built == via # "none"

\* C3: for a warmup schedule with warmup_steps > 0 and every step >= 0, the
\* call returns initial_rate * (step / warmup_steps) ^ power when
\* step < warmup_steps and decay_fn(step), at the same unshifted step, from
\* step = warmup_steps on.  (The quotient is granted the float32 operands
\* the code divides; which branch is taken is decided on the steps
\* themselves, as the claim and the comment of lines 45-46 say.)
C3_WarmupThenDecay ==
  (/\ Built
   /\ step >= 0
   /\ optimizer.learning_rate.cls = "WarmUp"
   /\ optimizer.learning_rate.warmup_steps > 0)
  => LET w == optimizer.learning_rate
     IN lr = IF step < w.warmup_steps
             THEN RatMul(w.initial_learning_rate,
                         RatPow(Rat(Float32(step),
                                    Float32(w.warmup_steps)), w.power))
             ELSE Schedule_call(w.decay_schedule_fn, step).value

\* C4: create_optimizer(init_rate, total_steps, warmup_steps) uses a
\* polynomial decay from init_rate to 0 over total_steps, wrapped in the
\* warmup schedule exactly when warmup_steps is nonzero, and no call of the
\* schedule of an optimizer it returned divides by a zero warmup length.
C4_WrapsIffNonzero ==
  via = "create_optimizer" =>
    LET decay == PolynomialDecay(args[1], args[2], <<0, 1>>)
        rate == optimizer.learning_rate
    IN /\ (args[3] # 0) <=> (rate.cls = "WarmUp")
       /\ args[3] # 0 =>
            /\ rate.decay_schedule_fn = decay
            /\ rate.warmup_steps = args[3]
            /\ rate.initial_learning_rate = args[1]
       /\ args[3] = 0 => rate = decay
       /\ ~divzero

\* an optimizer from create_optimizer with no warmup has been called
C4_Witness ==
  /\ via = "create_optimizer"
  /\ args[3] = 0
  /\ step >= 0

-----------------------------------------------------------------------------
(* Claims about weight decay and the configuration (SpecConfig) *)

\* the pattern without its anchors
Core(r) ==
  LET a == IF r # <<>> /\ r[1] = "^" THEN Tail(r) ELSE r
  IN IF a # <<>> /\ a[Len(a)] = "$" THEN SubSeq(a, 1, Len(a) - 1) ELSE a

\* what it means for pattern r to match somewhere in name
Occurs(r, name) ==
  \E i \in 1..(Len(name) + 1) :
    /\ i + Len(Core(r)) - 1 <= Len(name)
    /\ \A k \in 1..Len(Core(r)) :
         Core(r)[k] = "." \/ Core(r)[k] = name[i + k - 1]
    /\ (r # <<>> /\ r[1] = "^") => i = 1
    /\ (r # <<>> /\ r[Len(r)] = "$") => i + Len(Core(r)) - 1 = Len(name)

\* name contains the string sub
Contains(name, sub) ==
  \E i \in 1..(Len(name) + 1) :
    /\ i + Len(sub) - 1 <= Len(name)
    /\ SubSeq(name, i, i + Len(sub) - 1) = sub

\* C5: should_decay is false whenever weight_decay_rate is 0; otherwise it
\* is false if the name matches at least one exclusion pattern anywhere and
\* true if it matches none or there is no list; with the default patterns
\* and a nonzero rate it is false exactly for the names containing "bias"
\* or "layer_norm".
C5_ShouldDecay ==
  query.on # "none" =>
    LET self == IF query.on = "optimizer" THEN optimizer ELSE restored
        excl == self.exclude_from_weight_decay.list
        hit == \E k \in 1..Len(excl) : Occurs(excl[k], query.param_name)
    IN /\ self.weight_decay_rate = <<0, 1>> => query.answer = FALSE
       /\ self.weight_decay_rate # <<0, 1>> => query.answer = ~hit
       /\ (/\ self.weight_decay_rate # <<0, 1>>
           /\ excl = <<Str_layer_norm, Str_bias>>)
          => (query.answer = FALSE
                <=> \/ Contains(query.param_name, Str_bias)
                    \/ Contains(query.param_name, Str_layer_norm))

\* the default patterns were asked about a name holding "bias" inside
C5_Witness ==
  /\ query.on = "optimizer"
  /\ via = "create_optimizer"
  /\ query.param_name = <<"a", "/", "b", "i", "a", "s">>
  /\ query.answer = FALSE

Reconstructed == restored # None /\ restored # ValueError

\* C7: get_config() followed by from_config() yields an optimizer with the
\* same weight_decay_rate, beta_1 and beta_2 whose learning-rate schedule
\* returns the same rate at every step, also for a warmup wrapper around a
\* nested decay schedule.
C7_RoundTrip ==
  restored # None =>
    /\ restored # ValueError
    /\ restored.weight_decay_rate = optimizer.weight_decay_rate
    /\ restored.beta_1 = optimizer.beta_1
    /\ restored.beta_2 = optimizer.beta_2
    /\ \A s \in Steps :
         Schedule_call(restored.learning_rate, s).value
           = Schedule_call(optimizer.learning_rate, s).value

\* an optimizer with weight decay and a warmup wrapper has been rebuilt
C7_Witness ==
  /\ Reconstructed
  /\ optimizer.weight_decay_rate # <<0, 1>>
  /\ restored.learning_rate.cls = "WarmUp"
  /\ restored.learning_rate.decay_schedule_fn.cls = "PolynomialDecay"

\* C10: for an optimizer with a non-empty exclusion list and a nonzero
\* weight_decay_rate, from_config(get_config()) answers should_decay like
\* the original for every parameter name.
C10_DecayReconstructed ==
  (/\ Reconstructed
   /\ optimizer.exclude_from_weight_decay.list # <<>>
   /\ optimizer.weight_decay_rate # <<0, 1>>)
  => \A name \in ParamNames :
       _do_use_weight_decay(restored, name)
         = _do_use_weight_decay(optimizer, name)


-----------------------------------------------------------------------------
(* The update rule.  Tensor values are fixed-point integers counting       *)
(* tenths.  A gradient is a record [g, scale_sq, sparse]: the value g      *)
(* multiplied by the square root of the rational scale_sq, which keeps the *)
(* factor 1 / global_norm of the clip exact; sparse tells an IndexedSlices *)
(* gradient from a dense one.                                              *)

Unit == 2 * 5

Tensor(g, sparse) == [g |-> g, scale_sq |-> <<1, 1>>, sparse |-> sparse]

ISqrt(n) == CHOOSE r \in 0..n : r * r <= n /\ n < (r + 1) * (r + 1)

\* the fixed-point value of a gradient
Value(t) ==
  LET root == ISqrt((t.g * t.g * t.scale_sq[1]) \div t.scale_sq[2])
  IN IF t.g < 0 THEN -root ELSE root

\* tf.multiply(c, x) for a rational coefficient c
Times(c, x) == (c[1] * x) \div c[2]

OneMinus(c) == <<c[2] - c[1], c[2]>>

\* lines 138-139
next_m(self, m_, grad) ==
  Times(self.beta_1, m_) + Times(OneMinus(self.beta_1), grad)

\* lines 140-142
next_v(self, v_, grad) ==
  Times(self.beta_2, v_)
    + Times(OneMinus(self.beta_2), (grad * grad) \div Unit)

\* lines 144-147
update(self, name, param_, m_, v_, grad) ==
  LET adam == (next_m(self, m_, grad) * Unit)
                \div (ISqrt(next_v(self, v_, grad) * Unit)
                        + Times(self.epsilon, Unit))
  IN IF _do_use_weight_decay(self, name)
     THEN adam + Times(self.weight_decay_rate, param_)
     ELSE adam

\* lines 149-151
next_param(self, name, lr_t, param_, m_, v_, grad) ==
  param_ - Times(lr_t, update(self, name, param_, m_, v_, grad))

-----------------------------------------------------------------------------
(* Name resolution on line 134.  The function's locals there are its       *)
(* arguments and param; the module binds what lines 21-89 import or        *)
(* define.                                                                 *)

DenseLocals == {"self", "grad", "var", "param"}
ModuleNames == {"absolute_import", "division", "print_function", "re", "tf",
                "WarmUp", "create_optimizer", "AdamWeightDecay"}

NameBound(name) == name \in DenseLocals \cup ModuleNames

\* the exception line 134 ends in: self._decayed_lr_t is looked up first,
\* on a base class that may or may not have the attribute, then var_dtype
Line134Errors ==
  IF NameBound("var_dtype") THEN {} ELSE {"AttributeError", "NameError"}

-----------------------------------------------------------------------------
(* apply_gradients *)

\* clip_norm=1.0 on line 129, squared, in fixed-point units
ClipNormSq == Unit * Unit

\* tf.clip_by_global_norm(t_list, clip_norm) given the sum of squares of
\* all of t_list: every tensor times clip_norm * min(1/norm, 1/clip_norm)
clip_by_global_norm(t_list, clip_norm_sq, total_sq) ==
  [k \in 1..Len(t_list) |->
     [t_list[k] EXCEPT !.scale_sq =
        IF total_sq <= clip_norm_sq THEN <<1, 1>>
        ELSE Rat(clip_norm_sq, total_sq)]]

\* line 129 with the clip left out
grads_not_clipped(gs, total_sq) == gs

\* line 129: (grads, _) = tf.clip_by_global_norm(grads, clip_norm=1.0)
grads_after_clip(gs, total_sq) ==
  clip_by_global_norm(gs, ClipNormSq, total_sq)

\* line 130 handing over the list as it was before line 129 rebound grads
super_args_raw(gs, clipped_) == gs

\* line 130: zip(grads, tvars) with grads the clipped list
super_args(gs, clipped_) == clipped_

AllSlots == {"param", "m", "v"}

\* line 127-128: the call and the unzip, which fails on an empty list
ApplyGradients(gs) ==
  /\ pc = "idle"
  /\ Len(gs) = Len(varnames)
  /\ grads' = gs
  /\ before' = <<param, m, v>>
  /\ IF gs = <<>>
     THEN pc' = "failed" /\ error' = "ValueError"
     ELSE pc' = "clip" /\ error' = "none"
  /\ UNCHANGED <<optimizer, via, args, schedVars, configVars, varnames,
                 param, m, v, iterations, nread, sumsq, clipped, handed,
                 idx, received, written>>

\* line 129, the reduction of the global norm reading one more gradient
ClipRead ==
  /\ pc = "clip"
  /\ nread < Len(grads)
  /\ nread' = nread + 1
  /\ sumsq' = sumsq + grads[nread + 1].g * grads[nread + 1].g
  /\ UNCHANGED <<optimizer, via, args, schedVars, configVars, varnames,
                 param, m, v, iterations, before, pc, grads, clipped, handed,
                 idx, received, written, error>>

\* line 129, the rescaled list
ClipScale ==
  /\ pc = "clip"
  /\ nread = Len(grads)
  /\ clipped' = grads_after_clip(grads, sumsq)
  /\ pc' = "super"
  /\ UNCHANGED <<optimizer, via, args, schedVars, configVars, varnames,
                 param, m, v, iterations, before, grads, nread, sumsq, handed,
                 idx, received, written, error>>

\* line 130: the base class's apply_gradients is entered
CallSuper ==
  /\ pc = "super"
  /\ handed' = super_args(grads, clipped)
  /\ idx' = 1
  /\ pc' = "dispatch"
  /\ UNCHANGED <<optimizer, via, args, schedVars, configVars, varnames,
                 param, m, v, iterations, before, grads, nread, sumsq, clipped,
                 received, written, error>>

\* the base class moving on after an update method returned
Returned ==
  /\ idx' = idx + 1
  /\ IF idx = Len(handed)
     THEN pc' = "done" /\ iterations' = iterations + 1
     ELSE pc' = "dispatch" /\ UNCHANGED iterations

\* one call of an update method: its arguments, and whether it returned
Called(kind, returned) ==
  received' = Append(received, [var |-> idx, grad |-> handed[idx], kind |-> kind, returned |-> returned])

Raised(e) ==
  /\ error' = e
  /\ pc' = "failed"
  /\ UNCHANGED <<idx, iterations>>

\* _resource_apply_dense with param.assign moved in front of line 134
_resource_apply_dense_assign_first ==
  /\ pc = "dispatch"
  /\ ~handed[idx].sparse
  /\ Called("dense", FALSE)
  /\ param' = [param EXCEPT ![idx] = param[idx] - 1]
  /\ written' = [written EXCEPT ![idx] = {"param"}]
  /\ \E e \in {"AttributeError", "NameError"} : Raised(e)
  /\ UNCHANGED <<optimizer, via, args, schedVars, configVars, varnames, m, v,
                 before, grads, nread, sumsq, clipped, handed>>

\* AdamWeightDecay._resource_apply_dense(grad, var), called by the base
\* class for the next dense gradient
_resource_apply_dense ==
  /\ pc = "dispatch"
  /\ ~handed[idx].sparse
  /\ Called("dense", Line134Errors = {})
  /\ IF Line134Errors # {}
     THEN /\ \E e \in Line134Errors : Raised(e)
          /\ UNCHANGED <<param, m, v, written>>
     ELSE LET grad == Value(handed[idx])
              lr_t == Schedule_call(optimizer.learning_rate, iterations).value
          IN /\ param' = [param EXCEPT ![idx] =
                            next_param(optimizer, varnames[idx], lr_t,
                                       param[idx], m[idx], v[idx], grad)]
             /\ m' = [m EXCEPT ![idx] = next_m(optimizer, m[idx], grad)]
             /\ v' = [v EXCEPT ![idx] = next_v(optimizer, v[idx], grad)]
             /\ written' = [written EXCEPT ![idx] = AllSlots]
             /\ error' = "none"
             /\ Returned
  /\ UNCHANGED <<optimizer, via, args, schedVars, configVars, varnames,
                 before, grads, nread, sumsq, clipped, handed>>

\* a sparse update that returns without doing anything
_resource_apply_sparse_noop ==
  /\ pc = "dispatch"
  /\ handed[idx].sparse
  /\ Called("sparse", TRUE)
  /\ Returned
  /\ UNCHANGED <<optimizer, via, args, schedVars, configVars, varnames,
                 param, m, v, before, grads, nread, sumsq, clipped, handed,
                 written, error>>

\* AdamWeightDecay._resource_apply_sparse(grad, var, indices)
_resource_apply_sparse ==
  /\ pc = "dispatch"
  /\ handed[idx].sparse
  /\ Called("sparse", FALSE)
  /\ Raised("RuntimeError")
  /\ UNCHANGED <<optimizer, via, args, schedVars, configVars, varnames,
                 param, m, v, before, grads, nread, sumsq, clipped, handed,
                 written>>

-----------------------------------------------------------------------------
(* Specification SpecApply: an optimizer and its variables exist, with the *)
(* slots m and v at their initial zero; apply_gradients is called once.    *)

ApplyOptimizers ==
  {AdamWeightDecay(Constant(<<1, 10>>), <<1, 2>>, <<1, 2>>, <<1, 10>>, FALSE, r, List(<<Str_bias>>), DefaultName) :
     r \in {<<0, 1>>, <<1, 10>>}}

VarName(k) ==
  IF k % 2 = 1 THEN <<"k", "e", "r", "n", "e", "l">> ELSE Str_bias

GradValues == {k * (Unit \div 2) : k \in (-MaxGrad)..MaxGrad}

\* dense gradients of every value, sparse ones of the two extreme values
Gradients ==
  {Tensor(g, FALSE) : g \in GradValues}
    \cup {Tensor(g, TRUE) : g \in {0, MaxGrad * (Unit \div 2)}}

InitApply ==
  /\ optimizer \in ApplyOptimizers
  /\ via = "direct" /\ args = <<>>
  /\ step = -1 /\ lr = <<0, 1>> /\ divzero = FALSE
  /\ config = None /\ restored = None /\ query = NoQuery
  /\ \E n \in 0..MaxVars :
       /\ varnames = [k \in 1..n |-> VarName(k)]
       /\ param = [k \in 1..n |-> Unit]
       /\ m = [k \in 1..n |-> 0]
       /\ v = [k \in 1..n |-> 0]
       /\ written = [k \in 1..n |-> {}]
  /\ iterations = 0 /\ before = <<>>
  /\ pc = "idle" /\ grads = <<>> /\ nread = 0 /\ sumsq = 0
  /\ clipped = <<>> /\ handed = <<>> /\ idx = 0
  /\ received = <<>> /\ error = "none"

NextApply ==
  \/ \E gs \in [1..Len(varnames) -> Gradients] : ApplyGradients(gs)
  \/ ClipRead
  \/ ClipScale
  \/ CallSuper
  \/ _resource_apply_dense
  \/ _resource_apply_sparse

SpecApply == InitApply /\ [][NextApply]_vars


-----------------------------------------------------------------------------
(* Claims about apply_gradients and the update methods (SpecApply) *)

RECURSIVE SumSq(_)
SumSq(ts) == IF ts = <<>> THEN 0 ELSE ts[1].g * ts[1].g + SumSq(Tail(ts))

Entered == pc \in {"dispatch", "failed", "done"} /\ error # "ValueError"

\* C1: the dense update, invoked with gradient g on a parameter with
\* moments m, v and the schedule's rate lr, completes and leaves
\* m' = beta1*m + (1-beta1)*g, v' = beta2*v + (1-beta2)*g*g and
\* param' = param - lr*(m'/(sqrt(v')+epsilon) + d), d being
\* weight_decay_rate*param when the parameter is decayed and 0 otherwise.
C1_DenseUpdate ==
  \A j \in 1..Len(received) :
    received[j].kind = "dense" =>
      LET k == received[j].var
          g == Value(received[j].grad)
          new_m == Times(optimizer.beta_1, before[2][k])
                     + Times(OneMinus(optimizer.beta_1), g)
          new_v == Times(optimizer.beta_2, before[3][k])
                     + Times(OneMinus(optimizer.beta_2), (g * g) \div Unit)
          d == IF _do_use_weight_decay(optimizer, varnames[k])
               THEN Times(optimizer.weight_decay_rate, before[1][k])
               ELSE 0
          rate == Schedule_call(optimizer.learning_rate, 0).value
          quotient == (new_m * Unit)
                        \div (ISqrt(new_v * Unit) + Times(optimizer.epsilon, Unit))
      IN /\ received[j].returned
         /\ m[k] = new_m
         /\ v[k] = new_v
         /\ param[k] = before[1][k] - Times(rate, quotient + d)

\* C2: in every apply step the global-norm clip has read every gradient of
\* the list before any per-parameter update is called or any parameter or
\* slot is written, and every update receives the clipped gradient.
C2_ClipBeforeUpdates ==
  /\ (\/ received # <<>>
      \/ \E k \in 1..Len(written) : written[k] # {}
      \/ (before # <<>> /\ <<param, m, v>> # before))
     => (nread = Len(grads) /\ Len(clipped) = Len(grads))
  /\ \A j \in 1..Len(received) :
       received[j].grad = clipped[received[j].var]

\* an update was called with a gradient the clip had scaled down
C2_Witness ==
  /\ Len(grads) = 2
  /\ received # <<>>
  /\ received[1].grad.scale_sq # <<1, 1>>
  /\ received[1].grad # grads[1]

\* C6: the sparse update path always ends in a fatal error, never returns
\* normally, and leaves the parameter and its slots as they were.
C6_SparseFails ==
  \A j \in 1..Len(received) :
    received[j].kind = "sparse" =>
      /\ ~received[j].returned
      /\ j = Len(received)
      /\ pc = "failed"
      /\ error = "RuntimeError"
      /\ <<param, m, v>> = before

\* the sparse path was entered with a nonzero gradient
C6_Witness ==
  /\ received # <<>>
  /\ received[1].kind = "sparse"
  /\ received[1].grad.g # 0

\* C8: the gradients handed to the per-parameter updates have combined L2
\* norm min(original_norm, 1.0): they are unchanged when the original norm
\* is at most 1.0, and otherwise all are multiplied by the same positive
\* factor 1/original_norm.
C8_GlobalNormClip ==
  Entered =>
    LET total == SumSq(grads)
    IN /\ Len(handed) = Len(grads)
       /\ total <= Unit * Unit => handed = grads
       /\ \A k \in 1..Len(handed) :
            /\ handed[k].g = grads[k].g
            /\ handed[k].scale_sq[2] > 0
            /\ handed[k].scale_sq[1] > 0
            /\ handed[k].scale_sq = handed[1].scale_sq
            /\ total > Unit * Unit =>
                 handed[k].scale_sq[1] * total
                   = handed[k].scale_sq[2] * Unit * Unit
       /\ total * handed[1].scale_sq[1]
            = (IF total <= Unit * Unit THEN total ELSE Unit * Unit)
                * handed[1].scale_sq[2]
       /\ \A j \in 1..Len(received) :
            received[j].grad = handed[received[j].var]

\* two gradients of combined norm above 1.0 were handed on
C8_Witness ==
  /\ Entered
  /\ Len(grads) = 2
  /\ grads[1].g # 0 /\ grads[2].g # 0
  /\ SumSq(grads) > Unit * Unit
  /\ received # <<>>

=============================================================================
